---- MODULE Spec2Model ----
(***************************************************************************)
(* A model of src/game.py: a 3x3 chess variant in which pawns are dropped  *)
(* onto the board, pieces move as in chess, pawns promote on the far rank  *)
(* and "check" means that the opponent holds a complete row, column or     *)
(* diagonal.                                                               *)
(*                                                                         *)
(* The Game object is the pair (board, turn).  board[y][x] is the cell in  *)
(* row y and column x, as in the source.  Every method of Game is an       *)
(* operator over a record self = [board, turn]; a method that assigns to   *)
(* self returns the record [result, self] holding its return value and the *)
(* object as it leaves it, so that a method that forgot to restore the     *)
(* object would be seen by its callers.                                    *)
(***************************************************************************)
EXTENDS Integers, Sequences, FiniteSets, TLC

VARIABLES
    board,  \* Game.board: board[y][x], a Piece
    turn,   \* Game.turn: TRUE when White is to move
    plies,  \* number of execute_move calls made by the client so far
    ever,   \* history: the non-pawn pieces that have stood on the board
    last    \* history: the last call made on the Game, its argument, its
            \* return value and the board and turn it was made on; for the
            \* main loop, its last pass with the line read and the text printed

vars == <<board, turn, plies, ever, last>>

----------------------------------------------------------------------------
(* Bounds of the model.                                                    *)

\* the client of a game played from the empty board executes this many moves
MaxPlies == 7
\* a set-up position with few pieces holds at most this many
\* the longest game the main loop is followed for, in executed moves
MaxTurns == 9

MaxPieces == 3
\* a set-up position crowded with pawns has at most this many empty cells
MaxHoles == 2

----------------------------------------------------------------------------
(* class Piece                                                             *)

EMPTY == 0
WHITE_PAWN == 1
WHITE_ROOK == 2
WHITE_KNIGHT == 3
WHITE_BISHOP == 4
BLACK_PAWN == 5
BLACK_ROOK == 6
BLACK_KNIGHT == 7
BLACK_BISHOP == 8

Piece == EMPTY..BLACK_BISHOP

\* Python's None, for an absent end coordinate or promotion
None == -1

is_white(p) == p \in {WHITE_PAWN, WHITE_ROOK, WHITE_KNIGHT, WHITE_BISHOP}

is_black(p) == p \in {BLACK_PAWN, BLACK_ROOK, BLACK_KNIGHT, BLACK_BISHOP}

is_empty(p) == p = EMPTY

----------------------------------------------------------------------------
(* class Move                                                              *)

Move(start_x, start_y, piece, end_x, end_y, promotion) ==
    [start_x |-> start_x, start_y |-> start_y, piece |-> piece,
     end_x |-> end_x, end_y |-> end_y, promotion |-> promotion]

\* x_mapping.get(x, ""), a string being the sequence of its characters
x_mapping(x) == IF x = 0 THEN <<"a">> ELSE IF x = 1 THEN <<"b">>
                ELSE IF x = 2 THEN <<"c">> ELSE <<>>

\* a faulty variant of y_mapping: the rows are not inverted
y_mapping_not_inverted(y) ==
    IF y = 0 THEN <<"1">> ELSE IF y = 1 THEN <<"2">>
    ELSE IF y = 2 THEN <<"3">> ELSE <<>>

\* y_mapping.get(y, "")
y_mapping(y) == IF y = 0 THEN <<"3">> ELSE IF y = 1 THEN <<"2">>
                ELSE IF y = 2 THEN <<"1">> ELSE <<>>

\* promotion_mapping.get(p, "")
promotion_mapping(p) ==
    IF p \in {WHITE_ROOK, BLACK_ROOK} THEN <<"R">>
    ELSE IF p \in {WHITE_KNIGHT, BLACK_KNIGHT} THEN <<"K">>
    ELSE IF p \in {WHITE_BISHOP, BLACK_BISHOP} THEN <<"B">>
    ELSE <<>>

\* Move.to_string; a member of the enumeration Piece is always true in
\* "if self.promotion", None is not
to_string(self) ==
    x_mapping(self.start_x) \o y_mapping(self.start_y)
    \o (IF self.end_x # None /\ self.end_y # None
        THEN <<"-">> \o x_mapping(self.end_x) \o y_mapping(self.end_y)
        ELSE <<>>)
    \o (IF self.promotion # None THEN promotion_mapping(self.promotion) ELSE <<>>)

----------------------------------------------------------------------------
(* class Game                                                              *)

max_x == 3
max_y == 3

\* Game.__init__: the empty board
EmptyBoard == [y \in 0..(max_y - 1) |-> [x \in 0..(max_x - 1) |-> EMPTY]]

\* the object self
Self(b, t) == [board |-> b, turn |-> t]

\* is_opposite_color, as each generator computes it for its target cell
is_opposite_color(self, target_piece) ==
    (is_white(target_piece) /\ ~self.turn) \/ (is_black(target_piece) /\ self.turn)

\* a faulty variant of promote: it offers the pieces of the side not to move
promote_wrong_colour(self, move) ==
    LET pieces == IF self.turn
                  THEN <<BLACK_ROOK, BLACK_KNIGHT, BLACK_BISHOP>>
                  ELSE <<WHITE_ROOK, WHITE_KNIGHT, WHITE_BISHOP>>
        on_board(p) == \E y \in 0..2 : \E x \in 0..2 : self.board[y][x] = p
        option(i) ==
            IF ~on_board(pieces[i])
            THEN <<Move(move.start_x, move.start_y, pieces[i],
                        move.end_x, move.end_y, pieces[i])>>
            ELSE <<>>
    IN  <<move>> \o option(1) \o option(2) \o option(3)

\* a faulty variant of promote: it offers every piece, on the board or not
promote_unchecked(self, move) ==
    LET pieces == IF ~self.turn
                  THEN <<BLACK_ROOK, BLACK_KNIGHT, BLACK_BISHOP>>
                  ELSE <<WHITE_ROOK, WHITE_KNIGHT, WHITE_BISHOP>>
        option(i) == <<Move(move.start_x, move.start_y, pieces[i],
                            move.end_x, move.end_y, pieces[i])>>
    IN  <<move>> \o option(1) \o option(2) \o option(3)

promote(self, move) ==
    LET pieces == IF ~self.turn
                  THEN <<BLACK_ROOK, BLACK_KNIGHT, BLACK_BISHOP>>
                  ELSE <<WHITE_ROOK, WHITE_KNIGHT, WHITE_BISHOP>>
        on_board(p) == \E y \in 0..2 : \E x \in 0..2 : self.board[y][x] = p
        option(i) ==
            IF ~on_board(pieces[i])
            THEN <<Move(move.start_x, move.start_y, pieces[i],
                        move.end_x, move.end_y, pieces[i])>>
            ELSE <<>>
    IN  <<move>> \o option(1) \o option(2) \o option(3)

\* a faulty variant of pawn_movements: a pawn captures straight ahead too
pawn_movements_straight_capture(self, x, y) ==
    LET dy == IF self.turn THEN -1 ELSE 1
        step(dx) ==
            LET nx == x + dx
                ny == y + dy
            IN  IF ~(0 <= nx /\ nx < max_x /\ 0 <= ny /\ ny < max_y)
                THEN <<>>
                ELSE LET target_piece == self.board[ny][nx]
                         pawn_movement ==
                             Move(x, y, self.board[y][x], nx, ny, None)
                     IN  IF (is_empty(target_piece) /\ dx = 0)
                            \/ is_opposite_color(self, target_piece)
                         THEN IF ny \in {0, 2}
                              THEN promote(self, pawn_movement)
                              ELSE <<pawn_movement>>
                         ELSE <<>>
    IN  step(0) \o step(1) \o step(-1)

\* a faulty variant of pawn_movements: a pawn steps backwards as well
pawn_movements_both_ways(self, x, y) ==
    LET step(dx, dy) ==
            LET nx == x + dx
                ny == y + dy
            IN  IF ~(0 <= nx /\ nx < max_x /\ 0 <= ny /\ ny < max_y)
                THEN <<>>
                ELSE LET target_piece == self.board[ny][nx]
                         pawn_movement ==
                             Move(x, y, self.board[y][x], nx, ny, None)
                     IN  IF (is_empty(target_piece) /\ dx = 0)
                            \/ (is_opposite_color(self, target_piece) /\ dx # 0)
                         THEN IF ny \in {0, 2}
                              THEN promote(self, pawn_movement)
                              ELSE <<pawn_movement>>
                         ELSE <<>>
    IN  step(0, -1) \o step(1, -1) \o step(-1, -1)
        \o step(0, 1) \o step(1, 1) \o step(-1, 1)

pawn_movements(self, x, y) ==
    LET dy == IF self.turn THEN -1 ELSE 1
        step(dx) ==
            LET nx == x + dx
                ny == y + dy
            IN  IF ~(0 <= nx /\ nx < max_x /\ 0 <= ny /\ ny < max_y)
                THEN <<>>
                ELSE LET target_piece == self.board[ny][nx]
                         pawn_movement ==
                             Move(x, y, self.board[y][x], nx, ny, None)
                     IN  IF (is_empty(target_piece) /\ dx = 0)
                            \/ (is_opposite_color(self, target_piece) /\ dx # 0)
                         THEN IF ny \in {0, 2}
                              THEN promote(self, pawn_movement)
                              ELSE <<pawn_movement>>
                         ELSE <<>>
    IN  step(0) \o step(1) \o step(-1)

knight_diffs ==
    << <<1, 2>>, <<2, 1>>, <<-1, 2>>, <<-2, 1>>,
       <<1, -2>>, <<2, -1>>, <<-1, -2>>, <<-2, -1>> >>

\* a faulty variant of knight_movements: the lower bound of the column test is off by one
knight_movements_off_by_one(self, x, y) ==
    LET step(i) ==
            LET nx == x + knight_diffs[i][1]
                ny == y + knight_diffs[i][2]
            IN  IF nx > 0 /\ nx < max_x /\ ny >= 0 /\ ny < max_y
                THEN LET target_piece == self.board[ny][nx]
                     IN  IF target_piece = EMPTY
                            \/ is_opposite_color(self, target_piece)
                         THEN <<Move(x, y, self.board[y][x], nx, ny, None)>>
                         ELSE <<>>
                ELSE <<>>
    IN  step(1) \o step(2) \o step(3) \o step(4)
        \o step(5) \o step(6) \o step(7) \o step(8)

knight_movements(self, x, y) ==
    LET step(i) ==
            LET nx == x + knight_diffs[i][1]
                ny == y + knight_diffs[i][2]
            IN  IF nx >= 0 /\ nx < max_x /\ ny >= 0 /\ ny < max_y
                THEN LET target_piece == self.board[ny][nx]
                     IN  IF target_piece = EMPTY
                            \/ is_opposite_color(self, target_piece)
                         THEN <<Move(x, y, self.board[y][x], nx, ny, None)>>
                         ELSE <<>>
                ELSE <<>>
    IN  step(1) \o step(2) \o step(3) \o step(4)
        \o step(5) \o step(6) \o step(7) \o step(8)

\* a faulty variant of slide: the ray goes on behind a piece it can capture
RECURSIVE slide_through(_, _, _, _, _, _, _)
slide_through(self, x, y, nx, ny, dx, dy) ==
    IF nx >= 0 /\ nx < max_x /\ ny >= 0 /\ ny < max_y
    THEN LET target_piece == self.board[ny][nx]
             is_empty_ == target_piece = EMPTY
             is_opposite == is_opposite_color(self, target_piece)
         IN  (IF is_empty_ \/ is_opposite
              THEN <<Move(x, y, self.board[y][x], nx, ny, None)>>
              ELSE <<>>)
             \o (IF ~is_empty_ /\ ~is_opposite
                 THEN <<>>
                 ELSE slide_through(self, x, y, nx + dx, ny + dy, dx, dy))
    ELSE <<>>

\* the while loop of bischop_movement and of rook_movement: one ray from
\* (x, y), now at (nx, ny), in direction (dx, dy)
RECURSIVE slide(_, _, _, _, _, _, _)
slide(self, x, y, nx, ny, dx, dy) ==
    IF nx >= 0 /\ nx < max_x /\ ny >= 0 /\ ny < max_y
    THEN LET target_piece == self.board[ny][nx]
             is_empty_ == target_piece = EMPTY
         IN  (IF is_empty_ \/ is_opposite_color(self, target_piece)
              THEN <<Move(x, y, self.board[y][x], nx, ny, None)>>
              ELSE <<>>)
             \o (IF ~is_empty_
                 THEN <<>>
                 ELSE slide(self, x, y, nx + dx, ny + dy, dx, dy))
    ELSE <<>>

bischop_movement(self, x, y) ==
    slide(self, x, y, x + 1, y + 1, 1, 1)
    \o slide(self, x, y, x - 1, y + 1, -1, 1)
    \o slide(self, x, y, x + 1, y - 1, 1, -1)
    \o slide(self, x, y, x - 1, y - 1, -1, -1)

rook_movement(self, x, y) ==
    slide(self, x, y, x + 1, y, 1, 0)
    \o slide(self, x, y, x, y + 1, 0, 1)
    \o slide(self, x, y, x - 1, y, -1, 0)
    \o slide(self, x, y, x, y - 1, 0, -1)

\* a faulty variant of execute_move: a movement leaves the piece on its start cell
execute_move_no_clear(self, move) ==
    IF move.end_x = None \/ move.end_y = None
    THEN [board |-> [self.board EXCEPT ![move.start_y][move.start_x] = move.piece],
          turn |-> ~self.turn]
    ELSE [board |-> [self.board EXCEPT ![move.end_y][move.end_x] = move.piece],
          turn |-> ~self.turn]

execute_move(self, move) ==
    IF move.end_x = None \/ move.end_y = None
    THEN [board |-> [self.board EXCEPT ![move.start_y][move.start_x] = move.piece],
          turn |-> ~self.turn]
    ELSE [board |-> [[self.board EXCEPT ![move.end_y][move.end_x] = move.piece]
                        EXCEPT ![move.start_y][move.start_x] = EMPTY],
          turn |-> ~self.turn]

\* piece_of_opponent, the local function of in_check
piece_of_opponent(self, piece) ==
    (is_white(piece) /\ ~self.turn) \/ (is_black(piece) /\ self.turn)

\* a faulty variant of in_check: the second diagonal test reads the first diagonal
in_check_one_diagonal(self) ==
    \/ \E y \in 0..2 : \A x \in 0..2 : piece_of_opponent(self, self.board[y][x])
    \/ \E c \in 0..2 : \A y \in 0..2 : piece_of_opponent(self, self.board[y][c])
    \/ \A i \in 0..2 : piece_of_opponent(self, self.board[i][i])

in_check(self) ==
    \/ \E y \in 0..2 : \A x \in 0..2 : piece_of_opponent(self, self.board[y][x])
    \/ \E c \in 0..2 : \A y \in 0..2 : piece_of_opponent(self, self.board[y][c])
    \/ \A i \in 0..2 : piece_of_opponent(self, self.board[i][i])
    \/ \A i \in 0..2 : piece_of_opponent(self, self.board[i][2 - i])

\* a faulty variant of would_put_in_check: the turn is flipped back but the saved
\* board is not put back when the move would put the mover in check
would_put_in_check_no_revert(self, move) ==
    LET old_turn == self.turn
        moved == execute_move(self, move)
        flipped == [moved EXCEPT !.turn = ~moved.turn]
    IN  [result |-> in_check(flipped),
         self |-> [board |-> IF in_check(flipped) THEN flipped.board ELSE self.board,
                   turn |-> old_turn]]

\* a faulty variant of would_put_in_check: the turn is not flipped back before
\* in_check is asked
would_put_in_check_no_flip(self, move) ==
    LET old_board == self.board
        old_turn == self.turn
        moved == execute_move(self, move)
    IN  [result |-> in_check(moved),
         self |-> [board |-> old_board, turn |-> old_turn]]

would_put_in_check(self, move) ==
    LET old_board == self.board
        old_turn == self.turn
        moved == execute_move(self, move)
        flipped == [moved EXCEPT !.turn = ~moved.turn]
    IN  [result |-> in_check(flipped),
         self |-> [board |-> old_board, turn |-> old_turn]]

\* a faulty variant of cell_moves: both sides are kept off the same rank
cell_moves_same_rank(self, x, y) ==
    LET piece == self.board[y][x]
    IN  IF (is_black(piece) /\ self.turn) \/ (is_white(piece) /\ ~self.turn)
        THEN <<>>
        ELSE (IF piece = EMPTY /\ ((y # 0 /\ self.turn) \/ (y # 0 /\ ~self.turn))
              THEN <<Move(x, y, IF self.turn THEN WHITE_PAWN ELSE BLACK_PAWN,
                          None, None, None)>>
              ELSE <<>>)
             \o (IF piece \in {WHITE_PAWN, BLACK_PAWN}
                 THEN pawn_movements(self, x, y) ELSE <<>>)
             \o (IF piece \in {WHITE_KNIGHT, BLACK_KNIGHT}
                 THEN knight_movements(self, x, y) ELSE <<>>)
             \o (IF piece \in {WHITE_BISHOP, BLACK_BISHOP}
                 THEN bischop_movement(self, x, y) ELSE <<>>)
             \o (IF piece \in {WHITE_ROOK, BLACK_ROOK}
                 THEN rook_movement(self, x, y) ELSE <<>>)

\* the body of the double loop of allowed_moves: what cell (x, y) appends
cell_moves(self, x, y) ==
    LET piece == self.board[y][x]
    IN  IF (is_black(piece) /\ self.turn) \/ (is_white(piece) /\ ~self.turn)
        THEN <<>>
        ELSE (IF piece = EMPTY /\ ((y # 0 /\ self.turn) \/ (y # 2 /\ ~self.turn))
              THEN <<Move(x, y, IF self.turn THEN WHITE_PAWN ELSE BLACK_PAWN,
                          None, None, None)>>
              ELSE <<>>)
             \o (IF piece \in {WHITE_PAWN, BLACK_PAWN}
                 THEN pawn_movements(self, x, y) ELSE <<>>)
             \o (IF piece \in {WHITE_KNIGHT, BLACK_KNIGHT}
                 THEN knight_movements(self, x, y) ELSE <<>>)
             \o (IF piece \in {WHITE_BISHOP, BLACK_BISHOP}
                 THEN bischop_movement(self, x, y) ELSE <<>>)
             \o (IF piece \in {WHITE_ROOK, BLACK_ROOK}
                 THEN rook_movement(self, x, y) ELSE <<>>)

\* a faulty variant of candidate_moves: the rows are scanned upwards
candidate_moves_rows_ascending(self) ==
    LET column(x) == cell_moves(self, x, 0) \o cell_moves(self, x, 1)
                     \o cell_moves(self, x, 2)
    IN  column(0) \o column(1) \o column(2)

\* the double loop of allowed_moves: x ascending, y descending
candidate_moves(self) ==
    LET column(x) == cell_moves(self, x, 2) \o cell_moves(self, x, 1)
                     \o cell_moves(self, x, 0)
    IN  column(0) \o column(1) \o column(2)

\* a faulty variant of filter_moves: every candidate is kept
filter_moves_keep_all(self, candidates, i, kept) ==
    [result |-> candidates, self |-> self]

\* the list comprehension of allowed_moves: would_put_in_check is called on
\* each candidate in turn, each call on the object the previous one left
RECURSIVE filter_moves(_, _, _, _)
filter_moves(self, candidates, i, kept) ==
    IF i > Len(candidates)
    THEN [result |-> kept, self |-> self]
    ELSE LET w == would_put_in_check(self, candidates[i])
         IN  IF w.result
             THEN filter_moves(w.self, candidates, i + 1, kept)
             ELSE filter_moves(w.self, candidates, i + 1, Append(kept, candidates[i]))

allowed_moves(self) == filter_moves(self, candidate_moves(self), 1, <<>>)

\* a faulty variant of check_mate: "or" for "and"
check_mate_or(self) ==
    IF in_check(self)
    THEN [result |-> TRUE, self |-> self]
    ELSE LET a == allowed_moves(self)
         IN  [result |-> a.result = <<>>, self |-> a.self]

check_mate(self) ==
    IF in_check(self)
    THEN LET a == allowed_moves(self)
         IN  [result |-> a.result = <<>>, self |-> a.self]
    ELSE [result |-> FALSE, self |-> self]

stalemate(self) ==
    IF ~in_check(self)
    THEN LET a == allowed_moves(self)
         IN  [result |-> a.result = <<>>, self |-> a.self]
    ELSE [result |-> FALSE, self |-> self]

----------------------------------------------------------------------------
(* main(): what its loop computes with.  A line typed by the player is a   *)
(* sequence of characters.                                                 *)

Digits == <<"0", "1", "2", "3", "4", "5", "6", "7", "8", "9">>

IsDigit(c) == \E i \in 1..10 : Digits[i] = c

DigitValue(c) == (CHOOSE i \in 1..10 : Digits[i] = c) - 1

RECURSIVE Decimal(_, _)
Decimal(s, value) ==
    IF s = <<>> THEN value
    ELSE Decimal(Tail(s), 10 * value + DigitValue(Head(s)))

\* int(input(...)), for lines made of digits, "-" and letters: ok is FALSE
\* where int raises ValueError
int(s) ==
    LET negative == s # <<>> /\ Head(s) = "-"
        digits == IF negative THEN Tail(s) ELSE s
        ok == digits # <<>> /\ \A i \in 1..Len(digits) : IsDigit(digits[i])
    IN  [ok |-> ok,
         value |-> IF ~ok THEN 0
                   ELSE IF negative THEN 0 - Decimal(digits, 0)
                   ELSE Decimal(digits, 0)]

\* a faulty variant of index_in_range: the lower limit is not tested
index_in_range_no_lower(move_index, moves) == move_index < Len(moves)

\* line 369: 0 <= move_index < len(allowed_moves)
index_in_range(move_index, moves) ==
    0 <= move_index /\ move_index < Len(moves)

\* allowed_moves[move_index], the indexing of a Python list: a negative
\* index counts from the end, ok is FALSE where it raises IndexError
getitem(moves, move_index) ==
    IF 0 <= move_index /\ move_index < Len(moves)
    THEN [ok |-> TRUE, value |-> moves[move_index + 1]]
    ELSE IF move_index < 0 /\ 0 - move_index <= Len(moves)
    THEN [ok |-> TRUE, value |-> moves[Len(moves) + move_index + 1]]
    ELSE [ok |-> FALSE, value |-> Move(None, None, EMPTY, None, None, None)]

\* a faulty variant of winner: the side to move is named
winner_side_to_move(self) == IF self.turn THEN "White" ELSE "Black"

\* line 359: winner = "Black" if game.turn else "White"
winner(self) == IF self.turn THEN "Black" ELSE "White"

----------------------------------------------------------------------------
(* The clients of Game.                                                    *)

Officers ==
    {WHITE_ROOK, WHITE_KNIGHT, WHITE_BISHOP, BLACK_ROOK, BLACK_KNIGHT, BLACK_BISHOP}

Cells == (0..2) \X (0..2)

\* the non-pawn pieces standing on board b
OfficersOn(b) == {b[c[2]][c[1]] : c \in Cells} \cap Officers

NoMove == Move(None, None, EMPTY, None, None, None)

\* the record of a call: its name, its Move or (x, y) argument, the list or
\* boolean it returned, and the board and turn it was made on
Call(op, move, moves, flag) ==
    [op |-> op, move |-> move, moves |-> moves, flag |-> flag,
     board |-> board, turn |-> turn]

\* main, line 352: game = Game()
Init ==
    /\ board = EmptyBoard
    /\ turn = TRUE
    /\ plies = 0
    /\ ever = {}
    /\ last = Call("init", NoMove, <<>>, FALSE)

\* a position set up on the board directly, with few pieces of any kind:
\* the cells of S hold the pieces f gives them
SparseBoard(S, f) ==
    [y \in 0..2 |-> [x \in 0..2 |-> IF <<x, y>> \in S THEN f[<<x, y>>] ELSE EMPTY]]

\* a position set up on the board directly, crowded with pawns: the cells
\* of S are empty and the others hold the pawns f gives them
DenseBoard(S, f) ==
    [y \in 0..2 |-> [x \in 0..2 |-> IF <<x, y>> \in S THEN EMPTY ELSE f[<<x, y>>]]]

\* a Game whose board and turn were assigned by a test, with few pieces;
\* no position holds two non-pawn pieces of one kind and colour
InitPosition ==
    /\ \E S \in SUBSET Cells :
           /\ Cardinality(S) <= MaxPieces
           /\ \E f \in [S -> Piece \ {EMPTY}] :
                  /\ \A c, d \in S : (c # d /\ f[c] \in Officers) => f[c] # f[d]
                  /\ board = SparseBoard(S, f)
    /\ turn \in BOOLEAN
    /\ plies = 0
    /\ ever = OfficersOn(board)
    /\ last = Call("init", NoMove, <<>>, FALSE)

\* a Game whose board and turn were assigned by a test, crowded with pawns
InitCrowded ==
    /\ \E S \in SUBSET Cells :
           /\ Cardinality(S) <= MaxHoles
           /\ \E f \in [Cells \ S -> {WHITE_PAWN, BLACK_PAWN}] :
                  board = DenseBoard(S, f)
    /\ turn \in BOOLEAN
    /\ plies = 0
    /\ ever = OfficersOn(board)
    /\ last = Call("init", NoMove, <<>>, FALSE)

\* main, lines 356-370: the move of index i of the list that allowed_moves()
\* has just returned is executed
ExecuteMove ==
    /\ plies < MaxPlies
    /\ last.op = "allowed_moves"
    /\ \E i \in 1..Len(last.moves) :
           LET after == execute_move(Self(board, turn), last.moves[i])
           IN  /\ board' = after.board
               /\ turn' = after.turn
               /\ ever' = ever \cup OfficersOn(after.board)
               /\ last' = [op |-> "execute_move", move |-> last.moves[i],
                           moves |-> last.moves, flag |-> FALSE,
                           board |-> board, turn |-> turn]
    /\ plies' = plies + 1

\* a call of game.allowed_moves()
AllowedMovesCall ==
    \E a \in {allowed_moves(Self(board, turn))} :
        /\ board' = a.self.board
        /\ turn' = a.self.turn
        /\ last' = Call("allowed_moves", NoMove, a.result, a.result = <<>>)
        /\ UNCHANGED <<plies, ever>>

\* a call of game.check_mate()
CheckMateCall ==
    \E r \in {check_mate(Self(board, turn))} :
        /\ board' = r.self.board
        /\ turn' = r.self.turn
        /\ last' = Call("check_mate", NoMove, <<>>, r.result)
        /\ UNCHANGED <<plies, ever>>

\* a call of game.stalemate()
StalemateCall ==
    \E r \in {stalemate(Self(board, turn))} :
        /\ board' = r.self.board
        /\ turn' = r.self.turn
        /\ last' = Call("stalemate", NoMove, <<>>, r.result)
        /\ UNCHANGED <<plies, ever>>

\* a call of game.in_check()
InCheckCall ==
    /\ last' = Call("in_check", NoMove, <<>>, in_check(Self(board, turn)))
    /\ UNCHANGED <<board, turn, plies, ever>>

\* a call of game.knight_movements(x, y) on a knight of the side to move
KnightMovementsCall ==
    \E x \in 0..2, y \in 0..2 :
        /\ board[y][x] = IF turn THEN WHITE_KNIGHT ELSE BLACK_KNIGHT
        /\ last' = Call("knight_movements",
                        Move(x, y, board[y][x], None, None, None),
                        knight_movements(Self(board, turn), x, y), FALSE)
        /\ UNCHANGED <<board, turn, plies, ever>>

\* a call of game.pawn_movements(x, y) on a pawn of the side to move
PawnMovementsCall ==
    \E x \in 0..2, y \in 0..2 :
        /\ board[y][x] = IF turn THEN WHITE_PAWN ELSE BLACK_PAWN
        /\ last' = Call("pawn_movements",
                        Move(x, y, board[y][x], None, None, None),
                        pawn_movements(Self(board, turn), x, y), FALSE)
        /\ UNCHANGED <<board, turn, plies, ever>>

\* a call of game.promote(move), as pawn_movements makes it: on a pawn move
\* of the side to move that ends on row 0 or 2
PromoteCall ==
    \E x \in 0..2, y \in 0..2 :
        /\ board[y][x] = IF turn THEN WHITE_PAWN ELSE BLACK_PAWN
        /\ \E move \in {m \in {pawn_movements(Self(board, turn), x, y)[i] :
                                 i \in 1..Len(pawn_movements(Self(board, turn), x, y))} :
                          m.promotion = None /\ m.end_y \in {0, 2}} :
               last' = Call("promote", move, promote(Self(board, turn), move), FALSE)
        /\ UNCHANGED <<board, turn, plies, ever>>

\* a call of game.bischop_movement(x, y) on a bishop of the side to move
BischopMovementCall ==
    \E x \in 0..2, y \in 0..2 :
        /\ board[y][x] = IF turn THEN WHITE_BISHOP ELSE BLACK_BISHOP
        /\ last' = Call("bischop_movement",
                        Move(x, y, board[y][x], None, None, None),
                        bischop_movement(Self(board, turn), x, y), FALSE)
        /\ UNCHANGED <<board, turn, plies, ever>>

\* a call of game.rook_movement(x, y) on a rook of the side to move
RookMovementCall ==
    \E x \in 0..2, y \in 0..2 :
        /\ board[y][x] = IF turn THEN WHITE_ROOK ELSE BLACK_ROOK
        /\ last' = Call("rook_movement",
                        Move(x, y, board[y][x], None, None, None),
                        rook_movement(Self(board, turn), x, y), FALSE)
        /\ UNCHANGED <<board, turn, plies, ever>>

\* main, lines 356 and 365-366: a move of allowed_moves() is printed
ToStringCall ==
    \E a \in {allowed_moves(Self(board, turn))} :
        \E i \in 1..Len(a.result) :
            /\ board' = a.self.board
            /\ turn' = a.self.turn
            /\ last' = Call("to_string", a.result[i], to_string(a.result[i]), FALSE)
            /\ UNCHANGED <<plies, ever>>

\* the lines typed at the prompt of main
Inputs ==
    {<<"1", "x">>, <<"-", "1">>, <<"-", "0">>, <<"1">>, <<"0", "2">>, <<"9">>}

\* the record of a pass of the loop of main: what it did, the move it
\* executed, the list allowed_moves() gave it, the line it read, the text it
\* printed after the list, and the board and turn it started on
Pass(op, move, moves, input, output) ==
    [op |-> op, move |-> move, moves |-> moves, flag |-> FALSE,
     board |-> board, turn |-> turn, input |-> input, output |-> output]

\* main, line 352: game = Game()
InitMain ==
    /\ board = EmptyBoard
    /\ turn = TRUE
    /\ plies = 0
    /\ ever = {}
    /\ last = Pass("init", NoMove, <<>>, <<>>, <<>>)

\* main has left its loop
Stopped == last.op \in {"break", "IndexError"}

\* main, lines 356-363: allowed_moves() is empty
MainBreak ==
    /\ ~Stopped
    /\ \E a \in {allowed_moves(Self(board, turn))} :
           /\ a.result = <<>>
           /\ \E cm \in {check_mate(a.self)} :
                  IF cm.result
                  THEN /\ board' = cm.self.board
                       /\ turn' = cm.self.turn
                       /\ last' = Pass("break", NoMove, a.result, <<>>,
                                       <<"Checkmate, ", winner(cm.self), " wins!">>)
                  ELSE \E sm \in {stalemate(cm.self)} :
                           /\ board' = sm.self.board
                           /\ turn' = sm.self.turn
                           /\ last' = Pass("break", NoMove, a.result, <<>>,
                                           IF sm.result THEN <<"Stalemate!">>
                                                        ELSE <<>>)
    /\ UNCHANGED <<plies, ever>>

\* main, lines 356-370: an index of the list is read and its move executed
MainExecuteMove ==
    /\ ~Stopped
    /\ plies < MaxTurns
    /\ \E a \in {allowed_moves(Self(board, turn))} :
           /\ a.result # <<>>
           /\ \E input \in Inputs :
                  /\ int(input).ok
                  /\ index_in_range(int(input).value, a.result)
                  /\ LET move == getitem(a.result, int(input).value)
                         after == execute_move(a.self, move.value)
                     IN  IF move.ok
                         THEN /\ board' = after.board
                              /\ turn' = after.turn
                              /\ ever' = ever \cup OfficersOn(after.board)
                              /\ last' = Pass("execute_move", move.value,
                                              a.result, input, <<>>)
                         ELSE /\ board' = a.self.board
                              /\ turn' = a.self.turn
                              /\ ever' = ever
                              /\ last' = Pass("IndexError", NoMove, a.result,
                                              input, <<>>)
    /\ plies' = plies + 1

\* main, lines 368-372: the integer read is not an index of the list
MainInvalidIndex ==
    /\ ~Stopped
    /\ \E a \in {allowed_moves(Self(board, turn))} :
           /\ a.result # <<>>
           /\ \E input \in Inputs :
                  /\ int(input).ok
                  /\ ~index_in_range(int(input).value, a.result)
                  /\ board' = a.self.board
                  /\ turn' = a.self.turn
                  /\ last' = Pass("prompt", NoMove, a.result, input,
                                  <<"Invalid move index. Please try again.">>)
    /\ UNCHANGED <<plies, ever>>

\* main, lines 368 and 373-374: int() raises ValueError
MainInvalidInput ==
    /\ ~Stopped
    /\ \E a \in {allowed_moves(Self(board, turn))} :
           /\ a.result # <<>>
           /\ \E input \in Inputs :
                  /\ ~int(input).ok
                  /\ board' = a.self.board
                  /\ turn' = a.self.turn
                  /\ last' = Pass("prompt", NoMove, a.result, input,
                                  <<"Invalid input. Please enter an integer.">>)
    /\ UNCHANGED <<plies, ever>>

\* a game played from the empty board as main plays it: allowed_moves() is
\* called once, then a move of its list is executed
Next ==
    \/ ExecuteMove
    \/ (last.op # "allowed_moves" /\ AllowedMovesCall)

Spec == Init /\ [][Next]_vars

\* the loop of main, played with the lines of Inputs
NextMain ==
    \/ MainBreak
    \/ MainExecuteMove
    \/ MainInvalidIndex
    \/ MainInvalidInput

SpecMain == InitMain /\ [][NextMain]_vars

\* in_check and the knight's moves called on positions with few pieces
NextPosition ==
    \/ InCheckCall
    \/ KnightMovementsCall

SpecPosition == InitPosition /\ [][NextPosition]_vars

\* the moves of pawns, bishops and rooks called on positions with few pieces
NextGenerators ==
    \/ PawnMovementsCall
    \/ PromoteCall
    \/ BischopMovementCall
    \/ RookMovementCall

SpecGenerators == InitPosition /\ [][NextGenerators]_vars

\* the move list and the terminal tests called on crowded positions
NextCrowded ==
    \/ AllowedMovesCall
    \/ CheckMateCall
    \/ StalemateCall

SpecCrowded == InitCrowded /\ [][NextCrowded]_vars

\* the moves of crowded positions printed
NextNotation == ToStringCall

SpecNotation == InitCrowded /\ [][NextNotation]_vars

----------------------------------------------------------------------------
(* Vocabulary of the properties.                                           *)

\* the cell (x, y) of board b
At(b, c) == b[c[2]][c[1]]

\* the 8 lines of the board, as sets of cells (x, y)
Lines ==
    {{<<0, y>>, <<1, y>>, <<2, y>>} : y \in 0..2}
    \cup {{<<x, 0>>, <<x, 1>>, <<x, 2>>} : x \in 0..2}
    \cup {{<<0, 0>>, <<1, 1>>, <<2, 2>>}, {<<2, 0>>, <<1, 1>>, <<0, 2>>}}

WhitePieces == {WHITE_PAWN, WHITE_ROOK, WHITE_KNIGHT, WHITE_BISHOP}
BlackPieces == {BLACK_PAWN, BLACK_ROOK, BLACK_KNIGHT, BLACK_BISHOP}

\* the pieces of White when white is TRUE, of Black otherwise
PiecesOf(white) == IF white THEN WhitePieces ELSE BlackPieces

\* on board b some line is entirely occupied by pieces of one colour
HoldsLine(b, white) == \E L \in Lines : \A c \in L : At(b, c) \in PiecesOf(white)

\* the elements of a sequence
Range(s) == {s[i] : i \in 1..Len(s)}

IsPlacement(m) == m.end_x = None /\ m.end_y = None

----------------------------------------------------------------------------
(* C1.  Self-check exclusion: right after execute_move(m), for m taken     *)
(* from allowed_moves(), no line of the board is entirely occupied by      *)
(* pieces of the colour opposite to the side that made the move.           *)

SelfCheckExclusion ==
    last.op = "execute_move" => ~HoldsLine(board, ~last.turn)

\* a side that was in check, and had candidates discarded, has moved
SelfCheckExclusionWitness ==
    /\ last.op = "execute_move"
    /\ HoldsLine(last.board, ~last.turn)
    /\ Len(last.moves) < Len(candidate_moves(Self(last.board, last.turn)))
    /\ ~HoldsLine(board, ~last.turn)

----------------------------------------------------------------------------
(* C2.  Promotion uniqueness: in a game played from the empty board with   *)
(* moves taken from allowed_moves(), the board holds at most one Rook, one *)
(* Knight and one Bishop of each colour.                                   *)

PromotionUniqueness ==
    \A p \in Officers : Cardinality({c \in Cells : At(board, c) = p}) <= 1

\* a side that already had a non-pawn piece on the board has promoted again
PromotionUniquenessWitness ==
    /\ last.op = "execute_move"
    /\ last.move.promotion # None
    /\ OfficersOn(last.board) \cap PiecesOf(last.turn) # {}

----------------------------------------------------------------------------
(* C3.  As claimed: once a Rook, Knight or Bishop of a colour has been on  *)
(* the board, no later allowed_moves() list contains a promotion to that   *)
(* piece.                                                                  *)

PromotionConsumedForever ==
    last.op = "allowed_moves" =>
        \A m \in Range(last.moves) : m.promotion # None => m.promotion \notin ever

(* C3, amended.  While a Rook, Knight or Bishop of a colour is on the      *)
(* board, no allowed_moves() list contains a promotion to that piece.      *)

PromotionConsumedWhileOnBoard ==
    last.op = "allowed_moves" =>
        \A m \in Range(last.moves) :
            m.promotion # None => m.promotion \notin OfficersOn(board)

\* promotions are offered to a side that has a non-pawn piece on the board
PromotionConsumedWitness ==
    /\ last.op = "allowed_moves"
    /\ OfficersOn(board) \cap PiecesOf(turn) # {}
    /\ \E m \in Range(last.moves) : m.promotion # None

----------------------------------------------------------------------------
(* C4.  Revert integrity: allowed_moves(), check_mate() and stalemate()    *)
(* return with the 9 cells of the board and the turn as they were before   *)
(* the call.                                                               *)

RevertIntegrity ==
    last.op \in {"allowed_moves", "check_mate", "stalemate"} =>
        /\ \A c \in Cells : At(board, c) = At(last.board, c)
        /\ turn = last.turn

\* allowed_moves() has simulated candidates and discarded some of them
RevertIntegrityWitness ==
    /\ last.op = "allowed_moves"
    /\ last.moves # <<>>
    /\ Len(last.moves) < Len(candidate_moves(Self(last.board, last.turn)))

----------------------------------------------------------------------------
(* C5.  in_check() is true iff one of the 8 lines has its three cells      *)
(* occupied by pieces of the side not to move; with Black pawns on (0,0),  *)
(* (1,0), (2,0) and White to move it is true, and with (1,0) cleared it is *)
(* false.                                                                  *)

BlackRowZero ==
    [y \in 0..2 |-> [x \in 0..2 |-> IF y = 0 THEN BLACK_PAWN ELSE EMPTY]]

BlackRowZeroCleared ==
    [y \in 0..2 |-> [x \in 0..2 |-> IF y = 0 /\ x # 1 THEN BLACK_PAWN ELSE EMPTY]]

InCheckIsOpponentLine ==
    last.op = "in_check" =>
        /\ last.flag <=> HoldsLine(board, ~turn)
        /\ (board = BlackRowZero /\ turn) => last.flag
        /\ (board = BlackRowZeroCleared /\ turn) => ~last.flag

\* in_check() has answered on the literal position
InCheckWitness ==
    /\ last.op = "in_check"
    /\ board = BlackRowZero
    /\ turn
    /\ last.flag

----------------------------------------------------------------------------
(* C6.  Terminal-state exclusivity: check_mate() and stalemate() are never *)
(* both true; allowed_moves() is empty iff one of them is true; check_mate *)
(* is true exactly when there is no allowed move and the side to move is   *)
(* in check, stalemate exactly when there is none and it is not in check.  *)
(* The three methods are called one after the other on the same Game.      *)

TerminalExclusivity ==
    last.op = "check_mate" =>
        LET sm == stalemate(Self(board, turn))
            am == allowed_moves(sm.self)
            check == HoldsLine(board, ~turn)
        IN  /\ ~(last.flag /\ sm.result)
            /\ (am.result = <<>>) <=> (last.flag \/ sm.result)
            /\ last.flag <=> (am.result = <<>> /\ check)
            /\ sm.result <=> (am.result = <<>> /\ ~check)

\* check_mate() has answered false on a position that is a stalemate
TerminalExclusivityWitness ==
    /\ last.op = "check_mate"
    /\ ~last.flag
    /\ stalemate(Self(board, turn)).result
    /\ allowed_moves(Self(board, turn)).result = <<>>

----------------------------------------------------------------------------
(* C7.  execute_move(m) flips the turn once and changes only the cells m   *)
(* names: a placement writes m.piece to the start cell; a movement writes  *)
(* m.piece to the end cell and Empty to the start cell.                    *)

ExecuteMoveFrame ==
    last.op = "execute_move" =>
        LET m == last.move
            start == <<m.start_x, m.start_y>>
            end == <<m.end_x, m.end_y>>
        IN  /\ turn = ~last.turn
            /\ IsPlacement(m) =>
                   \A c \in Cells :
                       At(board, c) = IF c = start THEN m.piece ELSE At(last.board, c)
            /\ ~IsPlacement(m) =>
                   \A c \in Cells :
                       At(board, c) = IF c = end THEN m.piece
                                      ELSE IF c = start THEN EMPTY
                                      ELSE At(last.board, c)

\* a movement that captures has been executed
ExecuteMoveFrameWitness ==
    /\ last.op = "execute_move"
    /\ ~IsPlacement(last.move)
    /\ At(last.board, <<last.move.end_x, last.move.end_y>>) # EMPTY

----------------------------------------------------------------------------
(* C8.  Drop rule: a placement is a candidate for cell (x, y) iff the cell *)
(* is Empty and y # 0 with White to move, y # 2 with Black to move; every  *)
(* placement places the pawn of the side to move.                          *)

DropRule ==
    LET candidates == Range(candidate_moves(Self(board, turn)))
    IN  /\ \A c \in Cells :
               (\E m \in candidates :
                    IsPlacement(m) /\ <<m.start_x, m.start_y>> = c)
               <=> /\ At(board, c) = EMPTY
                   /\ IF turn THEN c[2] # 0 ELSE c[2] # 2
        /\ \A m \in candidates :
               (m.end_x = None \/ m.end_y = None) =>
                   /\ m.piece = IF turn THEN WHITE_PAWN ELSE BLACK_PAWN
                   /\ m.promotion = None

\* moves were listed on a board with an empty cell of the forbidden rank,
\* an empty cell of another rank and an occupied cell
DropRuleWitness ==
    /\ last.op = "allowed_moves"
    /\ \E c \in Cells : At(board, c) = EMPTY /\ c[2] = IF turn THEN 0 ELSE 2
    /\ \E c \in Cells : At(board, c) # EMPTY
    /\ \E m \in Range(last.moves) : IsPlacement(m)

----------------------------------------------------------------------------
(* C9.  As claimed: with a White knight on (1,1) of an otherwise empty     *)
(* board and White to move, knight_movements(1,1) returns 4 moves.         *)

KnightCentre ==
    [y \in 0..2 |-> [x \in 0..2 |-> IF x = 1 /\ y = 1 THEN WHITE_KNIGHT ELSE EMPTY]]

KnightCentreFourTargets ==
    (/\ last.op = "knight_movements"
     /\ board = KnightCentre
     /\ turn
     /\ <<last.move.start_x, last.move.start_y>> = <<1, 1>>)
    => Len(last.moves) = 4

(* C9, amended.  knight_movements(x, y) returns one move for each of the   *)
(* 8 L-shaped offsets whose target is on the board and is Empty or holds a *)
(* piece of the opposite colour, and drops the others without error; from  *)
(* (1,1) every offset leaves the board and the list is empty.              *)

LShapes == {d \in (-2..2) \X (-2..2) : d[1] * d[1] + d[2] * d[2] = 5}

KnightInBoundsTargets ==
    last.op = "knight_movements" =>
        LET x == last.move.start_x
            y == last.move.start_y
            targets == {c \in Cells :
                          /\ <<c[1] - x, c[2] - y>> \in LShapes
                          /\ At(board, c) \notin PiecesOf(turn)}
        IN  /\ {<<m.end_x, m.end_y>> : m \in Range(last.moves)} = targets
            /\ Len(last.moves) = Cardinality(targets)
            /\ \A m \in Range(last.moves) :
                   /\ <<m.start_x, m.start_y>> = <<x, y>>
                   /\ m.piece = At(board, <<x, y>>)
                   /\ m.promotion = None
            /\ (board = KnightCentre /\ turn) => last.moves = <<>>

\* knight_movements(1, 1) has answered on the literal position
KnightCentreWitness ==
    /\ last.op = "knight_movements"
    /\ board = KnightCentre
    /\ turn
    /\ <<last.move.start_x, last.move.start_y>> = <<1, 1>>
    /\ last.moves = <<>>

----------------------------------------------------------------------------
(* C10.  Move well-formedness: every Move of allowed_moves() has (a) no    *)
(* promotion when it has no end, (b) as promotion, if any, a Rook, Knight  *)
(* or Bishop of the side to move, (c) start and end coordinates in 0..2,   *)
(* and a piece of the side to move.                                        *)

MoveWellFormed ==
    last.op \in {"allowed_moves", "execute_move"} =>
        \A m \in Range(last.moves) :
            /\ (m.end_x = None \/ m.end_y = None) => m.promotion = None
            /\ m.promotion # None => m.promotion \in Officers \cap PiecesOf(last.turn)
            /\ m.start_x \in 0..2 /\ m.start_y \in 0..2
            /\ \/ IsPlacement(m)
               \/ m.end_x \in 0..2 /\ m.end_y \in 0..2
            /\ m.piece \in PiecesOf(last.turn)

\* a list of moves holding a placement, a plain movement and a promotion
MoveWellFormedWitness ==
    /\ last.op = "allowed_moves"
    /\ \E m \in Range(last.moves) : IsPlacement(m)
    /\ \E m \in Range(last.moves) : ~IsPlacement(m) /\ m.promotion = None
    /\ \E m \in Range(last.moves) : m.promotion # None

----------------------------------------------------------------------------
(* C11.  Notation: to_string() of a Move of allowed_moves() is <col><row>  *)
(* for a placement and <col><row>-<col><row> for a movement, col being     *)
(* a/b/c for x = 0/1/2 and row 3/2/1 for y = 0/1/2, followed by exactly    *)
(* one letter R (rook), K (knight) or B (bishop) iff a promotion is set,   *)
(* and by nothing else.                                                    *)

Col(x) == <<"a", "b", "c">>[x + 1]

Row(y) == <<"3", "2", "1">>[y + 1]

NotationGrammar ==
    last.op = "to_string" =>
        LET m == last.move
            str == last.moves
            body == IF IsPlacement(m) THEN 2 ELSE 5
        IN  /\ Len(str) = body + IF m.promotion # None THEN 1 ELSE 0
            /\ str[1] = Col(m.start_x) /\ str[2] = Row(m.start_y)
            /\ ~IsPlacement(m) =>
                   str[3] = "-" /\ str[4] = Col(m.end_x) /\ str[5] = Row(m.end_y)
            /\ m.promotion \in {WHITE_ROOK, BLACK_ROOK} => str[body + 1] = "R"
            /\ m.promotion \in {WHITE_KNIGHT, BLACK_KNIGHT} => str[body + 1] = "K"
            /\ m.promotion \in {WHITE_BISHOP, BLACK_BISHOP} => str[body + 1] = "B"

\* a promotion to a knight has been printed
NotationWitness ==
    /\ last.op = "to_string"
    /\ last.move.promotion = BLACK_KNIGHT
    /\ last.moves = <<"b", "2", "-", "c", "1", "K">>

----------------------------------------------------------------------------
(* C12.  allowed_moves() returns the candidates for which                  *)
(* would_put_in_check is false, in the order of the candidate list, none   *)
(* left out and none added; the candidates come in the order of a scan of  *)
(* the columns x = 0, 1, 2 and, within a column, of the rows y = 2, 1, 0,  *)
(* drops and piece moves interleaved.                                      *)

\* the board after move m on board b
After(b, m) ==
    [y \in 0..2 |-> [x \in 0..2 |->
        IF IsPlacement(m)
        THEN IF <<x, y>> = <<m.start_x, m.start_y>> THEN m.piece ELSE b[y][x]
        ELSE IF <<x, y>> = <<m.end_x, m.end_y>> THEN m.piece
             ELSE IF <<x, y>> = <<m.start_x, m.start_y>> THEN EMPTY
             ELSE b[y][x]]]

\* the place of the start cell of m in the scan
ScanRank(m) == 3 * m.start_x + (2 - m.start_y)

AllowedMovesOrder ==
    last.op = "allowed_moves" =>
        LET candidates == candidate_moves(Self(board, turn))
            Safe(m) == ~HoldsLine(After(board, m), ~turn)
        IN  /\ last.moves = SelectSeq(candidates, Safe)
            /\ \A i \in 1..(Len(candidates) - 1) :
                   ScanRank(candidates[i]) <= ScanRank(candidates[i + 1])

\* a list from which candidates were discarded, that keeps moves of two
\* cells between which a candidate was discarded
AllowedMovesOrderWitness ==
    /\ last.op = "allowed_moves"
    /\ LET candidates == candidate_moves(Self(board, turn))
       IN  \E i, j, k \in 1..Len(candidates) :
               /\ i < j /\ j < k
               /\ ScanRank(candidates[i]) < ScanRank(candidates[k])
               /\ candidates[i] \in Range(last.moves)
               /\ candidates[j] \notin Range(last.moves)
               /\ candidates[k] \in Range(last.moves)

----------------------------------------------------------------------------
(* C13.  Pawn moves: a pawn of the side to move at (x, y) has the          *)
(* destination (x + dx, y + dy), with dy = -1 for White and +1 for Black   *)
(* and dx in {0, 1, -1}, iff that cell is on the board and either dx = 0   *)
(* and it is Empty, or dx # 0 and it holds a piece of the other colour; it *)
(* has no other destination.                                               *)

\* the destinations of a list of moves
Destinations(moves) == {<<m.end_x, m.end_y>> : m \in Range(moves)}

PawnMoves ==
    last.op = "pawn_movements" =>
        LET x == last.move.start_x
            y == last.move.start_y
            forward == IF turn THEN y - 1 ELSE y + 1
            targets == {c \in Cells :
                          /\ c[2] = forward
                          /\ c[1] - x \in {-1, 0, 1}
                          /\ IF c[1] = x THEN At(board, c) = EMPTY
                                         ELSE At(board, c) \in PiecesOf(~turn)}
        IN  /\ Destinations(last.moves) = targets
            /\ \A m \in Range(last.moves) : <<m.start_x, m.start_y>> = <<x, y>>

\* a pawn with a free cell ahead, a capture on one side and a piece of its
\* own colour on the other side
PawnMovesWitness ==
    /\ last.op = "pawn_movements"
    /\ Cardinality(Destinations(last.moves)) = 2
    /\ \E c \in Cells :
           /\ c[2] = last.move.start_y + (IF turn THEN -1 ELSE 1)
           /\ c[1] # last.move.start_x
           /\ At(board, c) \in PiecesOf(turn)

----------------------------------------------------------------------------
(* C14.  promote(move), called for a pawn move that ends on row 0 or 2,    *)
(* returns the unpromoted move followed by one move for each of Rook,      *)
(* Knight, Bishop, in that order, of the mover's colour that is not on the *)
(* board, with the same start and end and that piece as piece and as       *)
(* promotion; pawn moves to the other row are not expanded.                *)

PromotionOrder(white) ==
    IF white THEN <<WHITE_ROOK, WHITE_KNIGHT, WHITE_BISHOP>>
             ELSE <<BLACK_ROOK, BLACK_KNIGHT, BLACK_BISHOP>>

PromoteList ==
    /\ last.op = "promote" =>
           LET Absent(p) == \A c \in Cells : At(board, c) # p
               offered == SelectSeq(PromotionOrder(turn), Absent)
           IN  /\ Len(last.moves) = 1 + Len(offered)
               /\ last.moves[1] = last.move
               /\ \A i \in 1..Len(offered) :
                      last.moves[i + 1] = [last.move EXCEPT !.piece = offered[i],
                                                            !.promotion = offered[i]]
    /\ last.op = "pawn_movements" =>
           \A m \in Range(last.moves) :
               /\ m.promotion # None => m.end_y \in {0, 2}
               /\ m.end_y = 1 => m.piece = last.move.piece

\* promote() has answered on a board that holds one of the three pieces
PromoteListWitness ==
    /\ last.op = "promote"
    /\ Len(last.moves) = 3
    /\ OfficersOn(board) \cap PiecesOf(turn) # {}

----------------------------------------------------------------------------
(* C15.  Sliding moves: for a bishop (4 diagonal directions) or a rook (4  *)
(* orthogonal directions) of the side to move, the destinations along a    *)
(* ray are the consecutive empty cells next to the piece, and the first    *)
(* occupied cell iff it holds a piece of the other colour; nothing behind  *)
(* the first occupied cell, and no cell holding a piece of its own colour. *)

Diagonals == {<<1, 1>>, <<-1, 1>>, <<1, -1>>, <<-1, -1>>}
Orthogonals == {<<1, 0>>, <<0, 1>>, <<-1, 0>>, <<0, -1>>}

SlidingMoves ==
    last.op \in {"bischop_movement", "rook_movement"} =>
        LET x == last.move.start_x
            y == last.move.start_y
            directions == IF last.op = "rook_movement" THEN Orthogonals ELSE Diagonals
            targets ==
                {c \in Cells :
                   /\ At(board, c) \notin PiecesOf(turn)
                   /\ \E d \in directions, k \in 1..2 :
                          /\ c = <<x + k * d[1], y + k * d[2]>>
                          /\ \A j \in 1..(k - 1) :
                                 At(board, <<x + j * d[1], y + j * d[2]>>) = EMPTY}
        IN  /\ Destinations(last.moves) = targets
            /\ Len(last.moves) = Cardinality(targets)
            /\ \A m \in Range(last.moves) :
                   /\ <<m.start_x, m.start_y>> = <<x, y>>
                   /\ m.piece = At(board, <<x, y>>)
                   /\ m.promotion = None

\* a rook with a capture at the end of one ray and a piece of its own colour
\* next to it on another
SlidingMovesWitness ==
    /\ last.op = "rook_movement"
    /\ \E m \in Range(last.moves) :
           /\ At(board, <<m.end_x, m.end_y>>) \in PiecesOf(~turn)
           /\ (m.end_x - m.start_x) * (m.end_x - m.start_x)
              + (m.end_y - m.start_y) * (m.end_y - m.start_y) = 4
    /\ \E d \in Orthogonals :
           /\ <<last.move.start_x + d[1], last.move.start_y + d[2]>> \in Cells
           /\ At(board, <<last.move.start_x + d[1], last.move.start_y + d[2]>>)
                  \in PiecesOf(turn)

----------------------------------------------------------------------------
(* C16.  Game loop end: main leaves its loop exactly when allowed_moves()  *)
(* of the current state is empty, and executes no move afterwards; it then *)
(* prints checkmate, naming the opponent of the side to move as winner,    *)
(* when the side to move is in check (the winner holds a complete line),   *)
(* and prints stalemate otherwise; while allowed_moves() is not empty the  *)
(* loop goes on.                                                           *)

ColourName(white) == IF white THEN "White" ELSE "Black"

MainLoopEndState ==
    last.op \in {"break", "execute_move", "prompt"} =>
        /\ last.moves = allowed_moves(Self(last.board, last.turn)).result
        /\ last.op = "break" <=> last.moves = <<>>
        /\ last.op = "break" =>
               /\ board = last.board
               /\ turn = last.turn
               /\ IF HoldsLine(board, ~turn)
                  THEN last.output = <<"Checkmate, ", ColourName(~turn), " wins!">>
                  ELSE last.output = <<"Stalemate!">>

MainLoopEndStep == last.op # "break" /\ (last'.op = "break" => plies' = plies)

MainLoopStalemateReached ==
    /\ last.op = "break"
    /\ last.output = <<"Stalemate!">>
    /\ plies > 0

----------------------------------------------------------------------------
(* C17.  Invalid input in the game loop: when the line read is not an      *)
(* integer, or is an integer outside the indices of the current            *)
(* allowed_moves() list, no move is executed and board and turn are as     *)
(* before at the next prompt; a move is only executed when it is the       *)
(* element at the index read of the list allowed_moves() gave for the      *)
(* current state.                                                          *)

\* the typed lines that are integers, with their values
IntegerLines ==
    {<<<<"-", "1">>, 0 - 1>>, <<<<"-", "0">>, 0>>, <<<<"1">>, 1>>,
     <<<<"0", "2">>, 2>>, <<<<"9">>, 9>>}

IsIndex(input, moves) ==
    \E i \in 0..(Len(moves) - 1) : <<input, i>> \in IntegerLines

InvalidInputHandling ==
    /\ last.op = "prompt" =>
           /\ board = last.board
           /\ turn = last.turn
           /\ ~IsIndex(last.input, last.moves)
           /\ last.output =
                  IF \E n \in -1..9 : <<last.input, n>> \in IntegerLines
                  THEN <<"Invalid move index. Please try again.">>
                  ELSE <<"Invalid input. Please enter an integer.">>
    /\ last.op = "execute_move" =>
           LET current == allowed_moves(Self(last.board, last.turn)).result
           IN  /\ IsIndex(last.input, current)
               /\ \A i \in 0..(Len(current) - 1) :
                      <<last.input, i>> \in IntegerLines => last.move = current[i + 1]
               /\ board = After(last.board, last.move)
               /\ turn = ~last.turn
    /\ last.op # "IndexError"

\* in the middle of a game "-1" was typed
InvalidInputWitness ==
    /\ last.op = "prompt"
    /\ last.input = <<"-", "1">>
    /\ plies > 0

----------------------------------------------------------------------------
(* C18.  When the side to move is in check, allowed_moves() holds no       *)
(* placement and no move onto an empty cell: every move of it is a capture *)
(* whose destination lies on every line the opponent fully occupies.       *)

\* white fully occupies line L of board b
Occupies(b, white, L) == \A c \in L : At(b, c) \in PiecesOf(white)

InCheckOnlyCaptures ==
    (last.op = "allowed_moves" /\ HoldsLine(last.board, ~last.turn)) =>
        \A m \in Range(last.moves) :
            /\ ~IsPlacement(m)
            /\ At(last.board, <<m.end_x, m.end_y>>) \in PiecesOf(~last.turn)
            /\ \A L \in Lines :
                   Occupies(last.board, ~last.turn, L) => <<m.end_x, m.end_y>> \in L

\* in check, with a placement and a capture off the line discarded and a
\* capture on the line kept
InCheckOnlyCapturesWitness ==
    /\ last.op = "allowed_moves"
    /\ HoldsLine(last.board, ~last.turn)
    /\ last.moves # <<>>
    /\ LET candidates == Range(candidate_moves(Self(last.board, last.turn)))
       IN  /\ \E m \in candidates : IsPlacement(m)
           /\ \E m \in candidates \ Range(last.moves) :
                  /\ ~IsPlacement(m)
                  /\ At(last.board, <<m.end_x, m.end_y>>) \in PiecesOf(~last.turn)

----------------------------------------------------------------------------
(* C19.  When the side to move is not in check, would_put_in_check is      *)
(* false for every candidate and allowed_moves() is the whole candidate    *)
(* list: the filter discards moves only when the side to move is in check. *)

FilterOnlyInCheck ==
    (last.op = "allowed_moves" /\ ~HoldsLine(last.board, ~last.turn)) =>
        LET self == Self(last.board, last.turn)
            candidates == candidate_moves(self)
        IN  /\ ~in_check(self)
            /\ last.moves = candidates
            /\ \A i \in 1..Len(candidates) :
                   ~would_put_in_check(self, candidates[i]).result

\* not in check, and among the moves a capture that completes a line of the
\* side to move
FilterOnlyInCheckWitness ==
    /\ last.op = "allowed_moves"
    /\ ~HoldsLine(last.board, ~last.turn)
    /\ \E m \in Range(last.moves) :
           /\ ~IsPlacement(m)
           /\ At(last.board, <<m.end_x, m.end_y>>) \in PiecesOf(~last.turn)
           /\ HoldsLine(After(last.board, m), last.turn)

----------------------------------------------------------------------------
(* C20.  A pawn may reach its far rank without promoting: with every       *)
(* promoting move the same move unpromoted is in the list.  A White pawn   *)
(* on row 0 or a Black pawn on row 2 has no move, and after any executed   *)
(* move it is still that pawn on that cell unless a piece of the other     *)
(* colour has taken the cell.                                              *)

\* cell c of board b holds a pawn on its far rank
FarRankPawn(b, c) ==
    \/ At(b, c) = WHITE_PAWN /\ c[2] = 0
    \/ At(b, c) = BLACK_PAWN /\ c[2] = 2

Unpromoted(m, white) ==
    [m EXCEPT !.piece = IF white THEN WHITE_PAWN ELSE BLACK_PAWN,
              !.promotion = None]

FarRankPawnStays ==
    /\ LET candidates == Range(candidate_moves(Self(board, turn)))
       IN  \A m \in candidates :
               /\ m.promotion # None => Unpromoted(m, turn) \in candidates
               /\ ~FarRankPawn(board, <<m.start_x, m.start_y>>)
    /\ \A c \in Cells :
           FarRankPawn(board, c) =>
               pawn_movements(Self(board, At(board, c) = WHITE_PAWN), c[1], c[2]) = <<>>
    /\ last.op = "allowed_moves" =>
           \A m \in Range(last.moves) :
               m.promotion # None => Unpromoted(m, last.turn) \in Range(last.moves)
    /\ last.op = "execute_move" =>
           \A c \in Cells :
               FarRankPawn(last.board, c) =>
                   \/ At(board, c) = At(last.board, c)
                   \/ /\ At(board, c) \in PiecesOf(At(last.board, c) # WHITE_PAWN)
                      /\ <<last.move.end_x, last.move.end_y>> = c

\* a pawn has just moved to its far rank unpromoted though a promotion was
\* offered, next to a pawn that has been standing on that rank
FarRankPawnStaysWitness ==
    /\ last.op = "execute_move"
    /\ last.move.promotion = None
    /\ ~IsPlacement(last.move)
    /\ FarRankPawn(board, <<last.move.end_x, last.move.end_y>>)
    /\ \E m \in Range(last.moves) : m.promotion # None /\ Unpromoted(m, last.turn) = last.move
    /\ \E c \in Cells : FarRankPawn(last.board, c) /\ FarRankPawn(board, c)

====
